---- MODULE Spec2Model ----
(***************************************************************************)
(* Authentication and session subsystem of the contacts REST backend:      *)
(* token service (app/services/auth.py), user directory                    *)
(* (app/repository/users.py), the auth routes (app/routes/auth.py) and the *)
(* rate limiter of the contacts routes (app/routes/contacts.py).           *)
(*                                                                         *)
(* The users table is modelled with the columns the repository and the     *)
(* routes read and write: id, username, email, password, avatar,           *)
(* refresh_token, email_verified.                                          *)
(*                                                                         *)
(* A JWT is the record of its claims plus the key that signed it.          *)
(* jwt.encode is deterministic and writes iat and exp as whole seconds, so *)
(* two tokens with the same claims and key are the same string: equality   *)
(* of records is equality of the encoded strings.                          *)
(***************************************************************************)
EXTENDS Integers, Sequences, FiniteSets, TLC

VARIABLES
    now,       \* the wall clock, whole seconds since start
    users,     \* users table: email -> row
    cache,     \* redis: email -> cached profile under key "user:<email>"
    issued,    \* the refresh, verification and reset tokens minted so far
    last,      \* the last request with its response
    redeemed,  \* the refresh tokens that a successful refresh has consumed
    minted,    \* token service exercised directly: the last issue call
    verified,  \* token service exercised directly: the last verify call
    redis_up,  \* whether the redis server answers
    rate,      \* redis: client host -> counter under key "rate_limit:<host>"
    rlog,      \* the rate_limit calls made so far, finished or in progress
    flights,   \* the refresh_token requests handled concurrently
    lookups,   \* the get_current_user calls handled concurrently
    signups,   \* the signup requests handled concurrently
    contacts   \* contacts table: the rows by id, and the id sequence

vars == <<now, users, cache, issued, last, redeemed, minted, verified,
          redis_up, rate, rlog, flights, lookups, signups,
                contacts>>

----------------------------------------------------------------------------
(* Bounds and input sets *)

MaxIssued == 4
MaxRequests == 7
MaxFlights == 2

Emails == {"a@x.com", "b@x.com"}
Passwords == {"secret1", "secret2"}
SignupPasswords == {"secret1"}
Usernames == {"user1"}

(* Program constants *)

ACCESS_TTL == 900
REFRESH_TTL == 604800
EMAIL_TTL == 900
RESET_TTL == 900
CACHE_TTL == 3600
RATE_LIMIT == 5
RATE_WINDOW == 60

(* The instants at which requests arrive: the same second, the next one,   *)
(* and one late enough for a 15 minute token minted at 0 to have expired.  *)
Times == {0, 1, ACCESS_TTL + 1}

SECRET_KEY == "SECRET_KEY"
Scopes == {"access_token", "refresh_token", "email_verification", "password_reset"}

----------------------------------------------------------------------------
(* Values *)

None == << >>
NoneToken == [sub |-> "", scope |-> "", iat |-> 0, exp |-> 0, key |-> ""]
NoUser == [id |-> 0, username |-> "", email |-> "", password |-> None,
           avatar |-> None, refresh_token |-> NoneToken, email_verified |-> FALSE]

(* A token signed with another key: jwt.decode rejects its signature. *)
ForgedTokens ==
    {[sub |-> "a@x.com", scope |-> "refresh_token", iat |-> 0, exp |-> REFRESH_TTL,
      key |-> "OTHER_KEY"]}

EmailVerifiedDefault == FALSE

----------------------------------------------------------------------------
(* Credential hasher *)

get_password_hash(password) == <<"bcrypt", password>>

verify_password(plain_password, hashed_password) ==
    hashed_password = <<"bcrypt", plain_password>>

----------------------------------------------------------------------------
(* Token service *)

Truthy(expires_delta) == expires_delta # None /\ expires_delta[1] # 0

(* Mutant: a lifetime that is not positive is taken as not supplied. *)
create_access_token_positive_only(sub, expires_delta, t) ==
    [sub |-> sub,
     iat |-> t,
     exp |-> IF Truthy(expires_delta) /\ expires_delta[1] > 0
             THEN t + expires_delta[1] ELSE t + ACCESS_TTL,
     scope |-> "access_token",
     key |-> SECRET_KEY]

create_access_token(sub, expires_delta, t) ==
    [sub |-> sub,
     iat |-> t,
     exp |-> IF Truthy(expires_delta) THEN t + expires_delta[1] ELSE t + ACCESS_TTL,
     scope |-> "access_token",
     key |-> SECRET_KEY]

create_refresh_token(sub, expires_delta, t) ==
    [sub |-> sub,
     iat |-> t,
     exp |-> IF Truthy(expires_delta) THEN t + expires_delta[1] ELSE t + REFRESH_TTL,
     scope |-> "refresh_token",
     key |-> SECRET_KEY]

create_email_token(sub, expires_delta, t) ==
    [sub |-> sub,
     iat |-> t,
     exp |-> IF Truthy(expires_delta) THEN t + expires_delta[1] ELSE t + EMAIL_TTL,
     scope |-> "email_verification",
     key |-> SECRET_KEY]

create_reset_token(sub, expires_delta, t) ==
    [sub |-> sub,
     iat |-> t,
     exp |-> IF Truthy(expires_delta) THEN t + expires_delta[1] ELSE t + RESET_TTL,
     scope |-> "password_reset",
     key |-> SECRET_KEY]

(* jwt.decode: signature, then expiry (a token is expired once exp < now). *)
jwt_decode(token, t) ==
    IF token.key # SECRET_KEY THEN [err |-> TRUE, payload |-> NoneToken]
    ELSE IF token.exp < t THEN [err |-> TRUE, payload |-> NoneToken]
    ELSE [err |-> FALSE, payload |-> token]

Ok(email) == [ok |-> TRUE, email |-> email, status |-> 200, detail |-> ""]
Raise(status, detail) == [ok |-> FALSE, email |-> "", status |-> status, detail |-> detail]

decode_refresh_token(token, t) ==
    LET d == jwt_decode(token, t) IN
    IF d.err THEN Raise(401, "Could not validate credentials")
    ELSE IF d.payload.scope = "refresh_token" THEN Ok(d.payload.sub)
    ELSE Raise(401, "Invalid scope for token")

get_email_from_token(token, t) ==
    LET d == jwt_decode(token, t) IN
    IF d.err THEN Raise(401, "Could not validate credentials")
    ELSE IF d.payload.scope = "email_verification" THEN Ok(d.payload.sub)
    ELSE Raise(401, "Invalid scope for token")

get_email_from_reset_token(token, t) ==
    LET d == jwt_decode(token, t) IN
    IF d.err THEN Raise(401, "Could not validate credentials")
    ELSE IF d.payload.scope = "password_reset" THEN Ok(d.payload.sub)
    ELSE Raise(401, "Invalid scope for token")

(* Mutant: the scope of the token is not looked at. *)
get_current_user_email_any_scope(token, t) ==
    LET d == jwt_decode(token, t) IN
    IF d.err THEN Raise(401, "Could not validate credentials")
    ELSE Ok(d.payload.sub)

(* The token check at the head of get_current_user. *)
get_current_user_email(token, t) ==
    LET d == jwt_decode(token, t) IN
    IF d.err THEN Raise(401, "Could not validate credentials")
    ELSE IF d.payload.scope = "access_token" THEN Ok(d.payload.sub)
    ELSE Raise(401, "Could not validate credentials")

----------------------------------------------------------------------------
(* User directory *)

get_user_by_email(email, db) == IF email \in DOMAIN db THEN db[email] ELSE NoUser

Found(user) == user # NoUser

create_user(username, email, password, db) ==
    [e \in DOMAIN db \cup {email} |->
        IF e = email
        THEN [id |-> Cardinality(DOMAIN db) + 1, username |-> username,
              email |-> email, password |-> password,
              avatar |-> <<"gravatar", email>>, refresh_token |-> NoneToken,
              email_verified |-> EmailVerifiedDefault]
        ELSE db[e]]

(* Mutant: a token of None is not written. *)
update_token_ignoring_none(user, token, db) ==
    IF token = NoneToken THEN db ELSE [db EXCEPT ![user.email].refresh_token = token]

update_token(user, token, db) ==
    [db EXCEPT ![user.email].refresh_token = token]

update_password(user, new_password, db) ==
    [db EXCEPT ![user.email].password = new_password]

update_avatar(email, url, db) ==
    IF email \in DOMAIN db THEN [db EXCEPT ![email].avatar = url] ELSE db

(* Mutant: the first of the two definitions of confirmed_email, which sets  *)
(* the attribute "confirmed" and leaves email_verified as it is.           *)
confirmed_email_first_definition(email, db) == db

confirmed_email(email, db) ==
    IF email \in DOMAIN db THEN [db EXCEPT ![email].email_verified = TRUE] ELSE db

----------------------------------------------------------------------------
(* Session cache *)

(* Mutant: the profile carries the username where the email belongs. *)
Profile_username_as_email(user, t) ==
    [id |-> user.id, username |-> user.username, email |-> user.username,
     avatar |-> user.avatar, expire_at |-> t + CACHE_TTL]

Profile(user, t) ==
    [id |-> user.id, username |-> user.username, email |-> user.email,
     avatar |-> user.avatar, expire_at |-> t + CACHE_TTL]

(* Mutant: SET ... NX, a key that exists keeps its value and its TTL. *)
redis_set_nx(c, email, profile) ==
    IF email \in DOMAIN c THEN c
    ELSE [k \in DOMAIN c \cup {email} |-> IF k = email THEN profile ELSE c[k]]

redis_set(c, email, profile) ==
    [k \in DOMAIN c \cup {email} |-> IF k = email THEN profile ELSE c[k]]

redis_hit(c, email, t) == email \in DOMAIN c /\ t < c[email].expire_at

----------------------------------------------------------------------------
(* The redis server: a command sent while it does not answer raises        *)
(* redis.exceptions.ConnectionError in the caller, which no handler        *)
(* catches: the request is answered with 500.                              *)

NoExpiry == -1
NoCounter == [n |-> 0, expire_at |-> NoExpiry]
NoFlight == [token |-> NoneToken, pc |-> "", user |-> NoUser, status |-> 0,
             detail |-> "", access |-> NoneToken, refresh |-> NoneToken,
             read_no |-> 0, write_no |-> 0]

NoLookup == [token |-> NoneToken, pc |-> "", email |-> "", user |-> NoUser,
             status |-> 0, read_no |-> 0]
NoContacts == [seq |-> 0, rows |-> << >>]
NoSignup == [username |-> "", email |-> "", password |-> "", pc |-> "",
             user |-> NoUser, status |-> 0]

----------------------------------------------------------------------------
(* The last request and its response *)

(* The User object a handler got from get_current_user: the attributes    *)
(* both a cached profile and a row of the users table carry.               *)
Returned(user) ==
    [id |-> user.id, username |-> user.username, email |-> user.email,
     avatar |-> user.avatar]

Response(op, email, status, detail, access, refresh, mail) ==
    [op |-> op, email |-> email, status |-> status, detail |-> detail,
     access |-> access, refresh |-> refresh, mail |-> mail, user |-> Returned(NoUser),
     rows |-> {}]

NoResponse == Response("", "", 0, "", NoneToken, NoneToken, "")

(* Every refresh token is handed out together with the access token for   *)
(* the same subject, minted in the same second.                            *)
Twin(token) == create_access_token(token.sub, None, token.iat)

Presentable ==
    issued \cup {Twin(t) : t \in {r \in issued : r.scope = "refresh_token"}}
           \cup ForgedTokens

(* Tokens handed out, up to MaxIssued different ones *)
Mint(tokens) ==
    /\ Cardinality(issued \cup tokens) <= MaxIssued
    /\ issued' = issued \cup tokens

----------------------------------------------------------------------------
(* await: get_email_from_reset_token and get_email_from_token are plain    *)
(* functions returning a str, decode_refresh_token is a coroutine function.*)
(* Awaiting a str raises TypeError, answered with 500; an HTTPException    *)
(* raised inside the call propagates before the await is evaluated.        *)

FunctionKind ==
    [decode_refresh_token |-> "async def",
     get_email_from_token |-> "def",
     get_email_from_reset_token |-> "def"]

Await(fname, result) ==
    IF FunctionKind[fname] = "async def" \/ ~result.ok THEN result
    ELSE Raise(500, "Internal Server Error")

----------------------------------------------------------------------------
(* Routes *)

(* The handlers the auth router registers *)
AuthRoutes ==
    {"signup", "login", "refresh_token", "read_users_me", "confirmed_email",
     "request_password_reset", "reset_password"}

TokUnchanged ==
    UNCHANGED <<minted, verified, redis_up, rate, rlog, flights, lookups, signups,
                contacts>>
AuxUnchanged ==
    UNCHANGED <<redeemed, minted, verified, redis_up, rate, rlog, flights, lookups, signups,
                contacts>>

signup(username, email, password) ==
    LET user == get_user_by_email(email, users) IN
    IF Found(user)
    THEN /\ last' = Response("signup", email, 409, "Account with this email already exists",
                             NoneToken, NoneToken, "")
         /\ UNCHANGED <<now, users, cache, issued>>
         /\ AuxUnchanged
    ELSE /\ users' = create_user(username, email, get_password_hash(password), users)
         /\ Mint({create_email_token(email, None, now)})
         /\ last' = Response("signup", email, 201, "User successfully created",
                             NoneToken, NoneToken, "verification")
         /\ UNCHANGED <<now, cache>>
         /\ AuxUnchanged

(* signup one await at a time, for requests handled concurrently: the read *)
(* of the users table, then create_user (INSERT and commit). The column    *)
(* email is unique: the INSERT of an email that is in the table raises     *)
(* IntegrityError, which nothing catches, and the request is answered 500  *)
(* with no row written and no mail sent.                                   *)
MaxSignups == 2

SignupUnchanged ==
    UNCHANGED <<now, cache, last, redeemed, minted, verified, redis_up, rate, rlog, flights,
                lookups, contacts>>

signup_read(username, email, password) ==
    LET i == Cardinality(DOMAIN signups) + 1
        user == get_user_by_email(email, users)
        entry == [NoSignup EXCEPT !.username = username, !.email = email,
                                  !.password = get_password_hash(password)]
    IN
    /\ i <= MaxSignups
    /\ signups' = [k \in DOMAIN signups \cup {i} |->
                      IF k # i THEN signups[k]
                      ELSE IF Found(user)
                      THEN [entry EXCEPT !.pc = "done", !.status = 409]
                      ELSE [entry EXCEPT !.pc = "insert"]]
    /\ UNCHANGED <<users, issued>>
    /\ SignupUnchanged

(* Mutant: the column email is not unique, the INSERT replaces the row. *)
signup_insert_not_unique(i) ==
    LET f == signups[i] IN
    /\ i \in DOMAIN signups
    /\ f.pc = "insert"
    /\ users' = create_user(f.username, f.email, f.password, users)
    /\ Mint({create_email_token(f.email, None, now)})
    /\ signups' = [signups EXCEPT ![i].pc = "done", ![i].status = 201,
                                  ![i].user = users'[f.email]]
    /\ SignupUnchanged

signup_insert(i) ==
    LET f == signups[i] IN
    /\ i \in DOMAIN signups
    /\ f.pc = "insert"
    /\ IF f.email \in DOMAIN users
       THEN /\ signups' = [signups EXCEPT ![i].pc = "done", ![i].status = 500]
            /\ UNCHANGED <<users, issued>>
       ELSE /\ users' = create_user(f.username, f.email, f.password, users)
            /\ Mint({create_email_token(f.email, None, now)})
            /\ signups' = [signups EXCEPT ![i].pc = "done", ![i].status = 201,
                                          ![i].user = users'[f.email]]
    /\ SignupUnchanged

(* Mutant: the email need not be confirmed. *)
login_check_unverified(user, password) ==
    IF ~Found(user) THEN "Invalid credentials"
    ELSE IF ~verify_password(password, user.password) THEN "Invalid credentials"
    ELSE ""

(* Mutant: the password is not compared. *)
login_check_any_password(user, password) ==
    IF ~Found(user) THEN "Invalid credentials"
    ELSE IF ~user.email_verified THEN "Email not confirmed"
    ELSE ""

(* The checks of login in their order; "" when all of them pass. *)
login_check(user, password) ==
    IF ~Found(user) THEN "Invalid credentials"
    ELSE IF ~user.email_verified THEN "Email not confirmed"
    ELSE IF ~verify_password(password, user.password) THEN "Invalid credentials"
    ELSE ""

login(email, password) ==
    LET user == get_user_by_email(email, users)
        failure == login_check(user, password)
    IN
    IF failure # ""
    THEN /\ last' = Response("login", email, 401, failure, NoneToken, NoneToken, "")
         /\ UNCHANGED <<now, users, cache, issued>>
         /\ AuxUnchanged
    ELSE LET access == create_access_token(user.email, None, now)
             refresh == create_refresh_token(user.email, None, now)
         IN
         /\ users' = update_token(user, refresh, users)
         /\ IF redis_up
            THEN /\ cache' = redis_set(cache, user.email, Profile(user, now))
                 /\ Mint({refresh})
                 /\ last' = Response("login", email, 200, "", access, refresh, "")
            ELSE /\ last' = Response("login", email, 500, "Internal Server Error",
                                     NoneToken, NoneToken, "")
                 /\ UNCHANGED <<cache, issued>>
         /\ UNCHANGED now
         /\ AuxUnchanged

(* Mutant: while no refresh token is stored, any valid refresh token of the *)
(* identity is taken.                                                      *)
refresh_token_grace(token) ==
    LET d == decode_refresh_token(token, now)
        r == Await("decode_refresh_token", d)
        user == get_user_by_email(r.email, users)
        Fail(status, detail, db) ==
            /\ users' = db
            /\ last' = Response("refresh_token", d.email, status, detail, NoneToken, NoneToken, "")
            /\ UNCHANGED <<now, cache, issued>>
            /\ AuxUnchanged
    IN
    IF ~r.ok THEN Fail(r.status, r.detail, users)
    ELSE IF ~Found(user) THEN Fail(401, "Invalid refresh token", users)
    ELSE IF user.refresh_token # token /\ user.refresh_token # NoneToken
         THEN Fail(401, "Invalid refresh token", update_token(user, NoneToken, users))
    ELSE LET access == create_access_token(user.email, None, now)
             refresh == create_refresh_token(user.email, None, now)
         IN
         /\ users' = update_token(user, refresh, users)
         /\ Mint({refresh})
         /\ redeemed' = redeemed \cup {token}
         /\ last' = Response("refresh_token", d.email, 200, "", access, refresh, "")
         /\ UNCHANGED <<now, cache>>
         /\ TokUnchanged

refresh_token(token) ==
    LET d == decode_refresh_token(token, now)
        r == Await("decode_refresh_token", d)
        user == get_user_by_email(r.email, users)
        Fail(status, detail, db) ==
            /\ users' = db
            /\ last' = Response("refresh_token", d.email, status, detail, NoneToken, NoneToken, "")
            /\ UNCHANGED <<now, cache, issued>>
            /\ AuxUnchanged
    IN
    IF ~r.ok THEN Fail(r.status, r.detail, users)
    ELSE IF ~Found(user) THEN Fail(401, "Invalid refresh token", users)
    ELSE IF user.refresh_token # token
         THEN Fail(401, "Invalid refresh token", update_token(user, NoneToken, users))
    ELSE LET access == create_access_token(user.email, None, now)
             refresh == create_refresh_token(user.email, None, now)
         IN
         /\ users' = update_token(user, refresh, users)
         /\ Mint({refresh})
         /\ redeemed' = redeemed \cup {token}
         /\ last' = Response("refresh_token", d.email, 200, "", access, refresh, "")
         /\ UNCHANGED <<now, cache>>
         /\ TokUnchanged

(* Mutant: a user read from the database is returned without being cached. *)
read_users_me_no_populate(token) ==
    LET r == get_current_user_email(token, now)
        user == get_user_by_email(r.email, users)
        Done(status, detail) ==
            last' = Response("read_users_me", r.email, status, detail, NoneToken, NoneToken, "")
    IN
    /\ UNCHANGED <<now, users, issued, cache>>
    /\ AuxUnchanged
    /\ IF ~r.ok THEN Done(r.status, r.detail)
       ELSE IF ~redis_up THEN Done(500, "Internal Server Error")
       ELSE IF redis_hit(cache, r.email, now) THEN Done(200, "cache")
       ELSE IF ~Found(user) THEN Done(401, "Could not validate credentials")
       ELSE Done(200, "database")

(* refresh_token handled concurrently, one step per database round trip:   *)
(* the read (decode the token, then await get_user_by_email) and, when the *)
(* request is resumed with the row it read, the comparison, the minting    *)
(* and the write (await update_token). read_no and write_no count the      *)
(* writes of refresh requests before the read and up to the write.         *)
Flight(token, pc, user, status, detail, access, refresh, read_no, write_no) ==
    [token |-> token, pc |-> pc, user |-> user, status |-> status, detail |-> detail,
     access |-> access, refresh |-> refresh, read_no |-> read_no, write_no |-> write_no]

Writes(fl) == Cardinality({k \in DOMAIN fl : fl[k].write_no > 0})

FlightUnchanged ==
    UNCHANGED <<cache, last, minted, verified, redis_up, rate, rlog, lookups, signups,
                contacts>>

refresh_token_read(token) ==
    LET i == Cardinality(DOMAIN flights) + 1
        d == decode_refresh_token(token, now)
        r == Await("decode_refresh_token", d)
        flight == IF ~r.ok
                  THEN Flight(token, "done", NoUser, r.status, r.detail,
                              NoneToken, NoneToken, Writes(flights), 0)
                  ELSE Flight(token, "write", get_user_by_email(r.email, users), 0, "",
                              NoneToken, NoneToken, Writes(flights), 0)
    IN
    /\ i <= MaxFlights
    /\ flights' = [k \in DOMAIN flights \cup {i} |-> IF k = i THEN flight ELSE flights[k]]
    /\ UNCHANGED <<now, users, issued, redeemed>>
    /\ FlightUnchanged

(* Mutant: the write is conditional on the stored token still being the   *)
(* presented one.                                                          *)
refresh_token_write_if_unchanged(i) ==
    LET f == flights[i]
        user == f.user
        stored == get_user_by_email(user.email, users).refresh_token
        access == create_access_token(user.email, None, now)
        refresh == create_refresh_token(user.email, None, now)
    IN
    /\ i \in DOMAIN flights
    /\ f.pc = "write"
    /\ IF ~Found(user)
       THEN /\ flights' = [flights EXCEPT ![i].pc = "done", ![i].status = 401,
                                          ![i].detail = "Invalid refresh token"]
            /\ UNCHANGED <<users, issued, redeemed>>
       ELSE IF user.refresh_token # f.token \/ stored # f.token
       THEN /\ users' = update_token(user, NoneToken, users)
            /\ flights' = [flights EXCEPT ![i].pc = "done", ![i].status = 401,
                                          ![i].detail = "Invalid refresh token",
                                          ![i].write_no = Writes(flights) + 1]
            /\ UNCHANGED <<issued, redeemed>>
       ELSE /\ users' = update_token(user, refresh, users)
            /\ Mint({refresh})
            /\ redeemed' = redeemed \cup {f.token}
            /\ flights' = [flights EXCEPT ![i].pc = "done", ![i].status = 200,
                                          ![i].access = access, ![i].refresh = refresh,
                                          ![i].write_no = Writes(flights) + 1]
    /\ UNCHANGED now
    /\ FlightUnchanged

refresh_token_write(i) ==
    LET f == flights[i]
        user == f.user
        access == create_access_token(user.email, None, now)
        refresh == create_refresh_token(user.email, None, now)
    IN
    /\ i \in DOMAIN flights
    /\ f.pc = "write"
    /\ IF ~Found(user)
       THEN /\ flights' = [flights EXCEPT ![i].pc = "done", ![i].status = 401,
                                          ![i].detail = "Invalid refresh token"]
            /\ UNCHANGED <<users, issued, redeemed>>
       ELSE IF user.refresh_token # f.token
       THEN /\ users' = update_token(user, NoneToken, users)
            /\ flights' = [flights EXCEPT ![i].pc = "done", ![i].status = 401,
                                          ![i].detail = "Invalid refresh token",
                                          ![i].write_no = Writes(flights) + 1]
            /\ UNCHANGED <<issued, redeemed>>
       ELSE /\ users' = update_token(user, refresh, users)
            /\ Mint({refresh})
            /\ redeemed' = redeemed \cup {f.token}
            /\ flights' = [flights EXCEPT ![i].pc = "done", ![i].status = 200,
                                          ![i].access = access, ![i].refresh = refresh,
                                          ![i].write_no = Writes(flights) + 1]
    /\ UNCHANGED now
    /\ FlightUnchanged

(* Mutant: an identity that has no stored refresh token is signed out, its *)
(* access tokens are refused.                                              *)
get_current_user_signed_in(token, t, db, c, up) ==
    LET r == get_current_user_email(token, t)
        user == get_user_by_email(r.email, db)
        Out(status, detail, u, c2) ==
            [status |-> status, detail |-> detail, email |-> r.email,
             user |-> Returned(u), cache |-> c2]
    IN
    IF ~r.ok THEN Out(r.status, r.detail, NoUser, c)
    ELSE IF ~up THEN Out(500, "Internal Server Error", NoUser, c)
    ELSE IF ~Found(user) \/ user.refresh_token = NoneToken
         THEN Out(401, "Could not validate credentials", NoUser, c)
    ELSE IF redis_hit(c, r.email, t) THEN Out(200, "cache", c[r.email], c)
    ELSE Out(200, "database", user, redis_set(c, user.email, Profile(user, t)))

(* get_current_user: the outcome, the User object returned and the cache   *)
(* as the call leaves it; the detail of a 200 names where the user came    *)
(* from.                                                                   *)
get_current_user(token, t, db, c, up) ==
    LET r == get_current_user_email(token, t)
        user == get_user_by_email(r.email, db)
        Out(status, detail, u, c2) ==
            [status |-> status, detail |-> detail, email |-> r.email,
             user |-> Returned(u), cache |-> c2]
    IN
    IF ~r.ok THEN Out(r.status, r.detail, NoUser, c)
    ELSE IF ~up THEN Out(500, "Internal Server Error", NoUser, c)
    ELSE IF redis_hit(c, r.email, t) THEN Out(200, "cache", c[r.email], c)
    ELSE IF ~Found(user) THEN Out(401, "Could not validate credentials", NoUser, c)
    ELSE Out(200, "database", user, redis_set(c, user.email, Profile(user, t)))

(* GET /auth/me: get_current_user as the dependency of the route *)
read_users_me(token) ==
    LET g == get_current_user(token, now, users, cache, redis_up) IN
    /\ cache' = g.cache
    /\ last' = [Response("read_users_me", g.email, g.status, g.detail,
                         NoneToken, NoneToken, "") EXCEPT !.user = g.user]
    /\ UNCHANGED <<now, users, issued>>
    /\ AuxUnchanged

(* get_current_user one await at a time, for requests handled              *)
(* concurrently: the redis get (a miss), the read of the users table, the  *)
(* redis set. A call that fails to decode its token or hits the cache has  *)
(* at most one await and is read_users_me above.                           *)
MaxLookups == 2

Reads(lk) == Cardinality({k \in DOMAIN lk : lk[k].read_no > 0})

LookupUnchanged ==
    UNCHANGED <<now, users, issued, last, redeemed, minted, verified, redis_up, rate, rlog,
                flights, signups,
                contacts>>

get_current_user_get(token) ==
    LET i == Cardinality(DOMAIN lookups) + 1
        r == get_current_user_email(token, now)
    IN
    /\ i <= MaxLookups
    /\ r.ok
    /\ redis_up
    /\ ~redis_hit(cache, r.email, now)
    /\ lookups' = [k \in DOMAIN lookups \cup {i} |->
                      IF k = i
                      THEN [NoLookup EXCEPT !.token = token, !.pc = "read", !.email = r.email]
                      ELSE lookups[k]]
    /\ UNCHANGED cache
    /\ LookupUnchanged

get_current_user_read(i) ==
    LET user == get_user_by_email(lookups[i].email, users) IN
    /\ i \in DOMAIN lookups
    /\ lookups[i].pc = "read"
    /\ lookups' = IF Found(user)
                  THEN [lookups EXCEPT ![i].pc = "write", ![i].user = user,
                                       ![i].read_no = Reads(lookups) + 1]
                  ELSE [lookups EXCEPT ![i].pc = "done", ![i].status = 401]
    /\ UNCHANGED cache
    /\ LookupUnchanged

get_current_user_set(i) ==
    LET user == lookups[i].user IN
    /\ i \in DOMAIN lookups
    /\ lookups[i].pc = "write"
    /\ IF redis_up
       THEN /\ cache' = redis_set(cache, user.email, Profile(user, now))
            /\ lookups' = [lookups EXCEPT ![i].pc = "done", ![i].status = 200]
       ELSE /\ cache' = cache
            /\ lookups' = [lookups EXCEPT ![i].pc = "done", ![i].status = 500]
    /\ LookupUnchanged

(* PATCH /users/avatar. The dependency get_current_user runs before the    *)
(* body, so a request that misses the cache writes the profile as it was   *)
(* before the update. The file is stored under contacts-app/{email} and    *)
(* the URL carries the version cloudinary answers with.                     *)
ContentTypes == {<<"image", "png">>, <<"text", "plain">>}
Versions == {1}

build_url(email, version) == <<"cloudinary", email, version>>

(* Mutant: the avatar update drops the cached profile of the identity. *)
update_avatar_user_invalidating(token, content_type, version) ==
    LET g == get_current_user(token, now, users, cache, redis_up)
        Answer(status, detail, u) ==
            [Response("update_avatar_user", g.email, status, detail,
                      NoneToken, NoneToken, "") EXCEPT !.user = Returned(u)]
    IN
    /\ IF g.status # 200
       THEN /\ last' = Answer(g.status, g.detail, NoUser)
            /\ cache' = g.cache
            /\ users' = users
       ELSE IF content_type[1] # "image"
       THEN /\ last' = Answer(400, "Only image files are allowed", NoUser)
            /\ cache' = g.cache
            /\ users' = users
       ELSE /\ users' = update_avatar(g.user.email, build_url(g.user.email, version), users)
            /\ cache' = [k \in DOMAIN g.cache \ {g.user.email} |-> g.cache[k]]
            /\ last' = Answer(200, "", users'[g.user.email])
    /\ UNCHANGED <<now, issued>>
    /\ AuxUnchanged

update_avatar_user(token, content_type, version) ==
    LET g == get_current_user(token, now, users, cache, redis_up)
        Answer(status, detail, u) ==
            [Response("update_avatar_user", g.email, status, detail,
                      NoneToken, NoneToken, "") EXCEPT !.user = Returned(u)]
    IN
    /\ IF g.status # 200
       THEN /\ last' = Answer(g.status, g.detail, NoUser)
            /\ cache' = g.cache
            /\ users' = users
       ELSE IF content_type[1] # "image"
       THEN /\ last' = Answer(400, "Only image files are allowed", NoUser)
            /\ cache' = g.cache
            /\ users' = users
       ELSE /\ users' = update_avatar(g.user.email, build_url(g.user.email, version), users)
            /\ cache' = g.cache
            /\ last' = Answer(200, "", users'[g.user.email])
    /\ UNCHANGED <<now, issued>>
    /\ AuxUnchanged

(* Mutant: a verification token is taken once; confirming again is an     *)
(* error.                                                                  *)
confirmed_email_route_once(token) ==
    LET r == get_email_from_token(token, now)
        user == get_user_by_email(r.email, users)
        Done(status, detail, db) ==
            /\ users' = db
            /\ last' = Response("confirmed_email", r.email, status, detail, NoneToken, NoneToken, "")
            /\ UNCHANGED <<now, cache, issued>>
            /\ AuxUnchanged
    IN
    IF ~r.ok THEN Done(r.status, r.detail, users)
    ELSE IF ~Found(user) THEN Done(400, "Verification error", users)
    ELSE IF user.email_verified THEN Done(400, "Verification error", users)
    ELSE Done(200, "Email confirmed", confirmed_email(r.email, users))

confirmed_email_route(token) ==
    LET r == get_email_from_token(token, now)
        user == get_user_by_email(r.email, users)
        Done(status, detail, db) ==
            /\ users' = db
            /\ last' = Response("confirmed_email", r.email, status, detail, NoneToken, NoneToken, "")
            /\ UNCHANGED <<now, cache, issued>>
            /\ AuxUnchanged
    IN
    IF ~r.ok THEN Done(r.status, r.detail, users)
    ELSE IF ~Found(user) THEN Done(400, "Verification error", users)
    ELSE IF user.email_verified THEN Done(200, "Your email is already confirmed", users)
    ELSE Done(200, "Email confirmed", confirmed_email(r.email, users))

(* Mutant: an unknown email is answered with 404. *)
request_password_reset_leaky(email) ==
    LET user == get_user_by_email(email, users) IN
    /\ UNCHANGED <<now, users, cache>>
    /\ AuxUnchanged
    /\ IF Found(user)
       THEN /\ Mint({create_reset_token(user.email, None, now)})
            /\ last' = Response("request_password_reset", email, 200,
                  "If a user with this email exists, a password reset token has been sent.",
                  NoneToken, NoneToken, "password_reset")
       ELSE /\ UNCHANGED issued
            /\ last' = Response("request_password_reset", email, 404, "Not found",
                                NoneToken, NoneToken, "")

request_password_reset(email) ==
    LET user == get_user_by_email(email, users)
        Done(mail) ==
            /\ last' = Response("request_password_reset", email, 200,
                  "If a user with this email exists, a password reset token has been sent.",
                  NoneToken, NoneToken, mail)
            /\ UNCHANGED <<now, users, cache>>
            /\ AuxUnchanged
    IN
    IF Found(user)
    THEN /\ Mint({create_reset_token(user.email, None, now)})
         /\ Done("password_reset")
    ELSE /\ UNCHANGED issued
         /\ Done("")

(* Mutant: a reset request with a good token signs the account out. *)
reset_password_revoking(token, new_password) ==
    LET d == get_email_from_reset_token(token, now)
        user == get_user_by_email(d.email, users)
    IN
    /\ users' = IF d.ok /\ Found(user) THEN update_token(user, NoneToken, users) ELSE users
    /\ last' = Response("reset_password", d.email,
                        IF d.ok THEN 500 ELSE d.status,
                        IF d.ok THEN "Internal Server Error" ELSE d.detail,
                        NoneToken, NoneToken, "")
    /\ UNCHANGED <<now, cache, issued>>
    /\ AuxUnchanged

reset_password(token, new_password) ==
    LET d == get_email_from_reset_token(token, now)
        r == Await("get_email_from_reset_token", d)
        user == get_user_by_email(r.email, users)
        Done(status, detail, db) ==
            /\ users' = db
            /\ last' = Response("reset_password", d.email, status, detail, NoneToken, NoneToken, "")
            /\ UNCHANGED <<now, cache, issued>>
            /\ AuxUnchanged
    IN
    IF ~r.ok THEN Done(r.status, r.detail, users)
    ELSE IF ~Found(user) THEN Done(400, "Invalid token", users)
    ELSE Done(200, "Password has been successfully reset.",
              update_password(user, get_password_hash(new_password), users))

----------------------------------------------------------------------------
(* The clock *)

Tick(t) ==
    /\ t > now
    /\ now' = t
    /\ UNCHANGED <<users, cache, issued, last>>
    /\ AuxUnchanged

----------------------------------------------------------------------------
(* Rate limiting of POST /contacts/ (app/routes/contacts.py)               *)

Hosts == {"10.0.0.1", "10.0.0.2"}

(* A key is there until its TTL, if it has one, has run out. *)
redis_live(store, key, t) ==
    /\ key \in DOMAIN store
    /\ (store[key].expire_at = NoExpiry \/ t < store[key].expire_at)

(* Mutant: the counter is written back with its TTL (SET ... EX), so every *)
(* increment of a key that has a TTL starts the TTL again.                 *)
redis_incr_touch(store, key, t) ==
    IF redis_live(store, key, t)
    THEN [store EXCEPT ![key].n = @ + 1,
                       ![key].expire_at = IF @ = NoExpiry THEN @ ELSE t + RATE_WINDOW]
    ELSE [k \in DOMAIN store \cup {key} |->
            IF k = key THEN [n |-> 1, expire_at |-> NoExpiry] ELSE store[k]]

(* INCR: one command; a key that is not there counts from 0, without TTL. *)
redis_incr(store, key, t) ==
    IF redis_live(store, key, t)
    THEN [store EXCEPT ![key].n = @ + 1]
    ELSE [k \in DOMAIN store \cup {key} |->
            IF k = key THEN [n |-> 1, expire_at |-> NoExpiry] ELSE store[k]]

(* Mutant: the TTL is not set. *)
redis_expire_ignored(store, key, ttl, t) == store

(* EXPIRE: sets the TTL of a key that is there. *)
redis_expire(store, key, ttl, t) ==
    IF redis_live(store, key, t)
    THEN [store EXCEPT ![key].expire_at = t + ttl]
    ELSE store

RateEntry(host, at, fresh, n, pc, outcome) ==
    [host |-> host, at |-> at, fresh |-> fresh, n |-> n, pc |-> pc, outcome |-> outcome]

rate_limit_outcome(current_requests) ==
    IF current_requests > RATE_LIMIT THEN "TooManyRequests" ELSE "admitted"

RateUnchanged ==
    UNCHANGED <<users, cache, issued, last, redeemed, minted, verified, redis_up, flights,
                lookups, signups,
                contacts>>

(* rate_limit, the whole dependency: incr, expire when the counter is 1,   *)
(* then the comparison with the limit.                                     *)
rate_limit(host) ==
    LET store == redis_incr(rate, host, now)
        current_requests == store[host].n
    IN
    /\ Len(rlog) < MaxRequests
    /\ IF ~redis_up
       THEN /\ rlog' = Append(rlog, RateEntry(host, now, FALSE, 0, "done", "500"))
            /\ UNCHANGED rate
       ELSE /\ rate' = IF current_requests = 1
                       THEN redis_expire(store, host, RATE_WINDOW, now)
                       ELSE store
            /\ rlog' = Append(rlog, RateEntry(host, now, ~redis_live(rate, host, now),
                                              current_requests, "done",
                                              rate_limit_outcome(current_requests)))
    /\ UNCHANGED now
    /\ RateUnchanged

(* Mutant: the counter is read with GET and written back with SET, so a    *)
(* request that reads while another request of the host is in progress     *)
(* writes the value that request wrote.                                    *)
rate_limit_incr_get_set(host) ==
    LET busy == {i \in 1..Len(rlog) : rlog[i].host = host /\ rlog[i].pc # "done"}
        other == CHOOSE i \in busy : \A k \in busy : k <= i
        store == redis_incr(rate, host, now)
        current_requests == IF busy = {} THEN store[host].n ELSE rlog[other].n
    IN
    /\ Len(rlog) < MaxRequests
    /\ rate' = IF busy = {} THEN store ELSE rate
    /\ rlog' = Append(rlog, RateEntry(host, now, ~redis_live(rate, host, now),
                                      current_requests,
                                      IF current_requests = 1 THEN "expire" ELSE "check",
                                      "pending"))
    /\ UNCHANGED now
    /\ RateUnchanged

(* rate_limit, one step per await: the incr, the expire, and the           *)
(* comparison, which runs when the call is resumed.                        *)
rate_limit_incr(host) ==
    LET store == redis_incr(rate, host, now)
        current_requests == store[host].n
    IN
    /\ Len(rlog) < MaxRequests
    /\ IF ~redis_up
       THEN /\ rlog' = Append(rlog, RateEntry(host, now, FALSE, 0, "done", "500"))
            /\ UNCHANGED rate
       ELSE /\ rate' = store
            /\ rlog' = Append(rlog, RateEntry(host, now, ~redis_live(rate, host, now),
                                              current_requests,
                                              IF current_requests = 1 THEN "expire" ELSE "check",
                                              "pending"))
    /\ UNCHANGED now
    /\ RateUnchanged

rate_limit_expire(i) ==
    /\ i \in 1..Len(rlog)
    /\ rlog[i].pc = "expire"
    /\ IF ~redis_up
       THEN /\ rlog' = [rlog EXCEPT ![i].pc = "done", ![i].outcome = "500"]
            /\ UNCHANGED rate
       ELSE /\ rate' = redis_expire(rate, rlog[i].host, RATE_WINDOW, now)
            /\ rlog' = [rlog EXCEPT ![i].pc = "check"]
    /\ UNCHANGED now
    /\ RateUnchanged

rate_limit_check(i) ==
    /\ i \in 1..Len(rlog)
    /\ rlog[i].pc = "check"
    /\ rlog' = [rlog EXCEPT ![i].pc = "done",
                            ![i].outcome = rate_limit_outcome(rlog[i].n)]
    /\ UNCHANGED <<now, rate>>
    /\ RateUnchanged

RateTick(t) ==
    /\ t > now
    /\ now' = t
    /\ UNCHANGED <<rate, rlog>>
    /\ RateUnchanged

----------------------------------------------------------------------------
(* Contacts (app/repository/contacts.py, app/routes/contacts.py). A string *)
(* is the tuple of its characters, so that ilike can be computed.          *)

MaxContacts == 2

Bodies ==
    {[first_name |-> <<"A", "n">>, last_name |-> <<"L", "i">>, email |-> <<"a", "@", "c">>],
     [first_name |-> <<"B", "o">>, last_name |-> <<"A", "l">>, email |-> <<"b", "@", "c">>]}

(* ContactUpdate bodies: only the fields that were sent (exclude_unset) *)
Updates ==
    {[first_name |-> <<"Z", "o">>],
     [email |-> <<"b", "@", "c">>]}

Queries == {<<"a">>, <<"l", "I">>}

Lower(ch) ==
    CASE ch = "A" -> "a" [] ch = "B" -> "b" [] ch = "I" -> "i"
      [] ch = "L" -> "l" [] ch = "Z" -> "z" [] OTHER -> ch

lower(str) == [k \in 1..Len(str) |-> Lower(str[k])]

(* column ILIKE '%query%' *)
ilike(str, query) ==
    \E k \in 0..(Len(str) - Len(query)) :
        SubSeq(lower(str), k + 1, k + Len(query)) = lower(query)

Rows(db) == {db.rows[k] : k \in DOMAIN db.rows}

Min(a, b) == IF a < b THEN a ELSE b

(* The query has no ORDER BY: which rows a page holds is up to the         *)
(* database. The results the call can return.                              *)
get_contacts(db, user, skip, limit) ==
    LET own == {c \in Rows(db) : c.user_id = user.id}
        size == Min(limit, IF Cardinality(own) > skip THEN Cardinality(own) - skip ELSE 0)
    IN {page \in SUBSET own : Cardinality(page) = size}

(* Mutant: the row is looked up by its id alone. *)
get_contact_by_id_any_owner(db, contact_id, user) ==
    {c \in Rows(db) : c.id = contact_id}

(* The row as a set: empty for None *)
get_contact_by_id(db, contact_id, user) ==
    {c \in Rows(db) : c.id = contact_id /\ c.user_id = user.id}

create_contact(db, body, user) ==
    LET id == db.seq + 1
        row == [id |-> id, user_id |-> user.id, first_name |-> body.first_name,
                last_name |-> body.last_name, email |-> body.email]
    IN [seq |-> id,
        rows |-> [k \in DOMAIN db.rows \cup {id} |-> IF k = id THEN row ELSE db.rows[k]]]

Updated(row, body) ==
    [f \in DOMAIN row |-> IF f \in DOMAIN body THEN body[f] ELSE row[f]]

update_contact(db, contact_id, body, user) ==
    IF get_contact_by_id(db, contact_id, user) = {} THEN db
    ELSE [db EXCEPT !.rows[contact_id] = Updated(@, body)]

delete_contact(db, contact_id, user) ==
    IF get_contact_by_id(db, contact_id, user) = {} THEN db
    ELSE [db EXCEPT !.rows = [k \in DOMAIN db.rows \ {contact_id} |-> db.rows[k]]]

search_contacts(db, query, user) ==
    {c \in Rows(db) :
        /\ c.user_id = user.id
        /\ \/ ilike(c.first_name, query)
           \/ ilike(c.last_name, query)
           \/ ilike(c.email, query)}

(* The column email of contacts is unique over the whole table: a commit   *)
(* that would give two rows one email raises IntegrityError (500).         *)
UniqueEmails(db) ==
    \A c1, c2 \in Rows(db) : c1.email = c2.email => c1.id = c2.id

(* The routes. Every one depends on get_current_user, which may write the  *)
(* cache; POST /contacts/ depends on rate_limit first.                     *)

(* A contacts request with its response: the subject its bearer token      *)
(* names, the id of the user it was resolved to (0 when it was not) and    *)
(* the rows returned                                                       *)
Answered(token, op, caller, status, rows) ==
    [Response(op, token.sub, status, "", NoneToken, NoneToken, "")
        EXCEPT !.user = [Returned(NoUser) EXCEPT !.id = caller], !.rows = rows]

ContactUnchanged ==
    UNCHANGED <<now, users, issued, redeemed, minted, verified, redis_up, flights,
                lookups, signups>>

(* Mutant: a redis server that does not answer counts as no limit reached. *)
rate_limit_dependency_fail_open(store, host, t, up) ==
    LET incr == redis_incr(store, host, t)
        current_requests == incr[host].n
    IN
    IF ~up THEN [store |-> store, n |-> 0, fresh |-> FALSE, outcome |-> "admitted"]
    ELSE [store |-> IF current_requests = 1
                    THEN redis_expire(incr, host, RATE_WINDOW, t) ELSE incr,
          n |-> current_requests,
          fresh |-> ~redis_live(store, host, t),
          outcome |-> rate_limit_outcome(current_requests)]

(* rate_limit as a dependency: the counters it leaves and its outcome *)
rate_limit_dependency(store, host, t, up) ==
    LET incr == redis_incr(store, host, t)
        current_requests == incr[host].n
    IN
    IF ~up THEN [store |-> store, n |-> 0, fresh |-> FALSE, outcome |-> "500"]
    ELSE [store |-> IF current_requests = 1
                    THEN redis_expire(incr, host, RATE_WINDOW, t) ELSE incr,
          n |-> current_requests,
          fresh |-> ~redis_live(store, host, t),
          outcome |-> rate_limit_outcome(current_requests)]

create_contact_route(host, token, body) ==
    LET r == rate_limit_dependency(rate, host, now, redis_up)
        g == get_current_user(token, now, users, cache, redis_up)
        db == create_contact(contacts, body, g.user)
    IN
    /\ Len(rlog) < MaxRequests
    /\ contacts.seq < MaxContacts
    /\ rate' = r.store
    /\ rlog' = Append(rlog, RateEntry(host, now, r.fresh, r.n, "done", r.outcome))
    /\ IF r.outcome = "500"
       THEN /\ last' = Answered(token, "create_contact", 0, 500, {})
            /\ UNCHANGED <<cache, contacts>>
       ELSE IF r.outcome = "TooManyRequests"
       THEN /\ last' = Answered(token, "create_contact", 0, 429, {})
            /\ UNCHANGED <<cache, contacts>>
       ELSE /\ cache' = g.cache
            /\ IF g.status # 200
               THEN /\ last' = Answered(token, "create_contact", 0, g.status, {})
                    /\ UNCHANGED contacts
               ELSE IF ~UniqueEmails(db)
               THEN /\ last' = Answered(token, "create_contact", g.user.id, 500, {})
                    /\ UNCHANGED contacts
               ELSE /\ contacts' = db
                    /\ last' = Answered(token, "create_contact", g.user.id, 201, {db.rows[db.seq]})
    /\ ContactUnchanged

get_contacts_route(token, skip, limit) ==
    LET g == get_current_user(token, now, users, cache, redis_up) IN
    /\ cache' = g.cache
    /\ IF g.status # 200
       THEN last' = Answered(token, "get_contacts", 0, g.status, {})
       ELSE \E page \in get_contacts(contacts, g.user, skip, limit) :
                last' = Answered(token, "get_contacts", g.user.id, 200, page)
    /\ UNCHANGED <<contacts, rate, rlog>>
    /\ ContactUnchanged

get_contact_by_id_route(token, contact_id) ==
    LET g == get_current_user(token, now, users, cache, redis_up)
        contact == get_contact_by_id(contacts, contact_id, g.user)
    IN
    /\ cache' = g.cache
    /\ last' = IF g.status # 200 THEN Answered(token, "get_contact_by_id", 0, g.status, {})
                 ELSE IF contact = {} THEN Answered(token, "get_contact_by_id", g.user.id, 404, {})
                 ELSE Answered(token, "get_contact_by_id", g.user.id, 200, contact)
    /\ UNCHANGED <<contacts, rate, rlog>>
    /\ ContactUnchanged

update_contact_route(token, contact_id, body) ==
    LET g == get_current_user(token, now, users, cache, redis_up)
        contact == get_contact_by_id(contacts, contact_id, g.user)
        db == update_contact(contacts, contact_id, body, g.user)
    IN
    /\ cache' = g.cache
    /\ IF g.status # 200
       THEN /\ last' = Answered(token, "update_contact", 0, g.status, {})
            /\ UNCHANGED contacts
       ELSE IF contact = {}
       THEN /\ last' = Answered(token, "update_contact", g.user.id, 404, {})
            /\ UNCHANGED contacts
       ELSE IF ~UniqueEmails(db)
       THEN /\ last' = Answered(token, "update_contact", g.user.id, 500, {})
            /\ UNCHANGED contacts
       ELSE /\ contacts' = db
            /\ last' = Answered(token, "update_contact", g.user.id, 200, {db.rows[contact_id]})
    /\ UNCHANGED <<rate, rlog>>
    /\ ContactUnchanged

delete_contact_route(token, contact_id) ==
    LET g == get_current_user(token, now, users, cache, redis_up)
        contact == get_contact_by_id(contacts, contact_id, g.user)
    IN
    /\ cache' = g.cache
    /\ IF g.status # 200
       THEN /\ last' = Answered(token, "delete_contact", 0, g.status, {})
            /\ UNCHANGED contacts
       ELSE IF contact = {}
       THEN /\ last' = Answered(token, "delete_contact", g.user.id, 404, {})
            /\ UNCHANGED contacts
       ELSE /\ contacts' = delete_contact(contacts, contact_id, g.user)
            /\ last' = Answered(token, "delete_contact", g.user.id, 200, contact)
    /\ UNCHANGED <<rate, rlog>>
    /\ ContactUnchanged

search_contacts_route(token, query) ==
    LET g == get_current_user(token, now, users, cache, redis_up)
        found == search_contacts(contacts, query, g.user)
    IN
    /\ cache' = g.cache
    /\ last' = IF g.status # 200 THEN Answered(token, "search_contacts", 0, g.status, {})
                 ELSE IF found = {} THEN Answered(token, "search_contacts", g.user.id, 404, {})
                 ELSE Answered(token, "search_contacts", g.user.id, 200, found)
    /\ UNCHANGED <<contacts, rate, rlog>>
    /\ ContactUnchanged

----------------------------------------------------------------------------
(* The redis server stops or starts answering *)

redis_goes(up) ==
    /\ up # redis_up
    /\ redis_up' = up
    /\ UNCHANGED <<now, users, cache, issued, last, redeemed, minted, verified,
                   rate, rlog, flights, lookups, signups,
                contacts>>

----------------------------------------------------------------------------
(* Token service called directly, with an explicit lifetime *)

NoMint == [sub |-> "", scope |-> "", ttl |-> None, at |-> 0, token |-> NoneToken]
NoVerify == [expected |-> "", m |-> NoMint, at |-> 0, res |-> Raise(0, "")]

TtlInputs == {None, <<-1>>, <<0>>, <<1>>}

issue(sub, scope, expires_delta, t) ==
    CASE scope = "access_token" -> create_access_token(sub, expires_delta, t)
      [] scope = "refresh_token" -> create_refresh_token(sub, expires_delta, t)
      [] scope = "email_verification" -> create_email_token(sub, expires_delta, t)
      [] scope = "password_reset" -> create_reset_token(sub, expires_delta, t)

verify(token, expected, t) ==
    CASE expected = "access_token" -> get_current_user_email(token, t)
      [] expected = "refresh_token" -> decode_refresh_token(token, t)
      [] expected = "email_verification" -> get_email_from_token(token, t)
      [] expected = "password_reset" -> get_email_from_reset_token(token, t)

MainUnchanged ==
    UNCHANGED <<users, cache, issued, last, redeemed, redis_up, rate, rlog, flights,
                lookups, signups,
                contacts>>

TokIssue(sub, scope, expires_delta) ==
    /\ minted' = [sub |-> sub, scope |-> scope, ttl |-> expires_delta, at |-> now,
                  token |-> issue(sub, scope, expires_delta, now)]
    /\ UNCHANGED <<now, verified>>
    /\ MainUnchanged

TokVerify(expected) ==
    /\ minted # NoMint
    /\ verified' = [expected |-> expected, m |-> minted, at |-> now,
                    res |-> verify(minted.token, expected, now)]
    /\ UNCHANGED <<now, minted>>
    /\ MainUnchanged

TokTick(t) ==
    /\ t > now
    /\ now' = t
    /\ UNCHANGED <<minted, verified>>
    /\ MainUnchanged

----------------------------------------------------------------------------
(* Specifications *)

Init ==
    /\ now = 0
    /\ users = [e \in {} |-> NoUser]
    /\ cache = [e \in {} |-> Profile(NoUser, 0)]
    /\ issued = {}
    /\ last = NoResponse
    /\ redeemed = {}
    /\ minted = NoMint
    /\ verified = NoVerify
    /\ redis_up = TRUE
    /\ rate = [h \in {} |-> NoCounter]
    /\ rlog = << >>
    /\ flights = [i \in {} |-> NoFlight]
    /\ lookups = [i \in {} |-> NoLookup]
    /\ signups = [i \in {} |-> NoSignup]
    /\ contacts = NoContacts

Next ==
    \/ \E u \in Usernames, e \in Emails, p \in SignupPasswords : signup(u, e, p)
    \/ \E e \in Emails, p \in Passwords : login(e, p)
    \/ \E t \in Presentable : refresh_token(t)
    \/ \E t \in Presentable : read_users_me(t)
    \/ \E t \in Presentable : confirmed_email_route(t)
    \/ \E e \in Emails : request_password_reset(e)
    \/ \E t \in Presentable, p \in Passwords : reset_password(t, p)
    \/ \E t \in Times : Tick(t)

Spec == Init /\ [][Next]_vars

NextTok ==
    \/ \E s \in Emails, c \in Scopes, ttl \in TtlInputs : TokIssue(s, c, ttl)
    \/ \E c \in Scopes : TokVerify(c)
    \/ \E t \in Times : TokTick(t)

SpecTok == Init /\ [][NextTok]_vars

(* The session cache over its lifetime, with redis outages: one identity,  *)
(* and instants up to the expiry of an entry cached at 0.                  *)

CacheEmails == {"a@x.com"}
CacheTimes == {0, 1, CACHE_TTL}

NextCache ==
    \/ \E u \in Usernames, e \in CacheEmails, p \in SignupPasswords : signup(u, e, p)
    \/ \E e \in CacheEmails, p \in SignupPasswords : login(e, p)
    \/ \E t \in Presentable : refresh_token(t)
    \/ \E t \in Presentable : read_users_me(t)
    \/ \E t \in Presentable : confirmed_email_route(t)
    \/ \E t \in CacheTimes : Tick(t)
    \/ \E up \in BOOLEAN : redis_goes(up)

SpecCache == Init /\ [][NextCache]_vars

(* The profile and the operations that change the identity behind it: one  *)
(* identity, redis answering, instants on both sides of the cache TTL.     *)
NextAvatar ==
    \/ \E u \in Usernames, e \in CacheEmails, p \in SignupPasswords : signup(u, e, p)
    \/ \E e \in CacheEmails, p \in SignupPasswords : login(e, p)
    \/ \E t \in Presentable : refresh_token(t)
    \/ \E t \in Presentable : read_users_me(t)
    \/ \E t \in Presentable, ct \in ContentTypes, v \in Versions :
          update_avatar_user(t, ct, v)
    \/ \E t \in Presentable : confirmed_email_route(t)
    \/ \E e \in CacheEmails : request_password_reset(e)
    \/ \E t \in Presentable, p \in SignupPasswords : reset_password(t, p)
    \/ \E t \in CacheTimes : Tick(t)

SpecAvatar == Init /\ [][NextAvatar]_vars

(* Concurrent resolves of one identity around an avatar update: the entry  *)
(* login wrote at 0 has expired at CACHE_TTL, refresh gives an access      *)
(* token valid then.                                                       *)
ResolveTimes == {0, CACHE_TTL}

NextResolve ==
    \/ \E u \in Usernames, e \in CacheEmails, p \in SignupPasswords : signup(u, e, p)
    \/ \E t \in Presentable : confirmed_email_route(t)
    \/ \E e \in CacheEmails, p \in SignupPasswords : login(e, p)
    \/ \E t \in Presentable : refresh_token(t)
    \/ \E t \in Presentable, v \in Versions : update_avatar_user(t, <<"image", "png">>, v)
    \/ \E t \in Presentable : get_current_user_get(t)
    \/ \E i \in 1..MaxLookups : get_current_user_read(i)
    \/ \E i \in 1..MaxLookups : get_current_user_set(i)
    \/ \E t \in ResolveTimes : Tick(t)

SpecResolve == Init /\ [][NextResolve]_vars

(* Concurrent signups, with two passwords so that the rows of two requests *)
(* for one email differ.                                                   *)
SignupTimes == {0, 1}

NextSignup ==
    \/ \E u \in Usernames, e \in Emails, p \in Passwords : signup_read(u, e, p)
    \/ \E i \in 1..MaxSignups : signup_insert(i)
    \/ \E t \in Presentable : confirmed_email_route(t)
    \/ \E e \in Emails, p \in Passwords : login(e, p)
    \/ \E t \in SignupTimes : Tick(t)

SpecSignup == Init /\ [][NextSignup]_vars

(* Two users and their contacts *)
ContactIds == 1..MaxContacts
Pages == {<<0, 100>>, <<1, 1>>}

(* The bearer tokens sent with contacts requests: what a client holds      *)
(* with the scope of an access token, valid or not                         *)
Bearers == {t \in Presentable : t.scope = "access_token"}

NextContacts ==
    \/ \E u \in Usernames, e \in Emails, p \in SignupPasswords : signup(u, e, p)
    \/ \E t \in Presentable : confirmed_email_route(t)
    \/ \E e \in Emails, p \in SignupPasswords : login(e, p)
    \/ \E t \in Bearers, b \in Bodies : create_contact_route("10.0.0.1", t, b)
    \/ \E t \in Bearers, pg \in Pages : get_contacts_route(t, pg[1], pg[2])
    \/ \E t \in Bearers, id \in ContactIds : get_contact_by_id_route(t, id)
    \/ \E t \in Bearers, id \in ContactIds, b \in Updates : update_contact_route(t, id, b)
    \/ \E t \in Bearers, id \in ContactIds : delete_contact_route(t, id)
    \/ \E t \in Bearers, q \in Queries : search_contacts_route(t, q)

SpecContacts == Init /\ [][NextContacts]_vars

(* One user creating contacts while the redis server comes and goes *)
NextContactsOutage ==
    \/ \E u \in Usernames, e \in CacheEmails, p \in SignupPasswords : signup(u, e, p)
    \/ \E t \in Presentable : confirmed_email_route(t)
    \/ \E e \in CacheEmails, p \in SignupPasswords : login(e, p)
    \/ \E t \in Bearers, b \in Bodies : create_contact_route("10.0.0.1", t, b)
    \/ \E t \in Bearers, pg \in Pages : get_contacts_route(t, pg[1], pg[2])
    \/ \E up \in BOOLEAN : redis_goes(up)

SpecContactsOutage == Init /\ [][NextContactsOutage]_vars

(* The rate limiter, one request at a time and with requests interleaved:  *)
(* instants on both sides of the end of a window that began at 0.          *)

RateTimes == {0, RATE_WINDOW - 1, RATE_WINDOW, 2 * RATE_WINDOW - 1}

NextRate ==
    \/ \E h \in Hosts : rate_limit(h)
    \/ \E t \in RateTimes : RateTick(t)

SpecRate == Init /\ [][NextRate]_vars

(* Interleaved requests: one client, a window that begins at 0, its last   *)
(* second and its end                                                      *)
ConcHosts == {"10.0.0.1"}
ConcTimes == {0, RATE_WINDOW - 1, RATE_WINDOW}

NextRateConc ==
    \/ \E h \in ConcHosts : rate_limit_incr(h)
    \/ \E i \in 1..MaxRequests : rate_limit_expire(i)
    \/ \E i \in 1..MaxRequests : rate_limit_check(i)
    \/ \E t \in ConcTimes : RateTick(t)

SpecRateConc == Init /\ [][NextRateConc]_vars

(* Interleaved requests of one client while the redis server may stop      *)
(* answering between two commands of a request.                            *)
CutTimes == {0, RATE_WINDOW}

NextRateCut ==
    \/ \E h \in ConcHosts : rate_limit_incr(h)
    \/ \E i \in 1..MaxRequests : rate_limit_expire(i)
    \/ \E i \in 1..MaxRequests : rate_limit_check(i)
    \/ \E t \in CutTimes : RateTick(t)
    \/ \E up \in BOOLEAN : redis_goes(up)

SpecRateCut == Init /\ [][NextRateCut]_vars

(* Refresh requests handled concurrently: one identity, two seconds *)

FlightTimes == {0, 1}

NextRefresh ==
    \/ \E u \in Usernames, e \in CacheEmails, p \in SignupPasswords : signup(u, e, p)
    \/ \E t \in Presentable : confirmed_email_route(t)
    \/ \E e \in CacheEmails, p \in SignupPasswords : login(e, p)
    \/ \E t \in Presentable : refresh_token_read(t)
    \/ \E i \in 1..MaxFlights : refresh_token_write(i)
    \/ \E t \in FlightTimes : Tick(t)

SpecRefresh == Init /\ [][NextRefresh]_vars

(* Refresh requests handled concurrently, and refresh requests after them *)
NextReplay ==
    \/ \E u \in Usernames, e \in CacheEmails, p \in SignupPasswords : signup(u, e, p)
    \/ \E t \in Presentable : confirmed_email_route(t)
    \/ \E e \in CacheEmails, p \in SignupPasswords : login(e, p)
    \/ \E t \in Presentable : refresh_token_read(t)
    \/ \E i \in 1..MaxFlights : refresh_token_write(i)
    \/ \E t \in Presentable : refresh_token(t)
    \/ \E t \in FlightTimes : Tick(t)

SpecReplay == Init /\ [][NextReplay]_vars

----------------------------------------------------------------------------
(* Properties *)

(* refresh would accept the token: it decodes as a refresh token of an     *)
(* identity whose stored refresh token it is.                              *)
Accepted(token, db, t) ==
    LET d == decode_refresh_token(token, t) IN
    /\ d.ok
    /\ d.email \in DOMAIN db
    /\ db[d.email].refresh_token = token

RefreshTokensOf(email, tokens) ==
    {t \in tokens : t.scope = "refresh_token" /\ t.sub = email}

GenericResetMessage ==
    "If a user with this email exists, a password reset token has been sent."

(* C1: when the stored refresh token is T0, refresh(T0) succeeds and       *)
(* stores a new token T1 different from T0; a refresh with a token that an *)
(* earlier refresh has consumed fails with 401 "Invalid refresh token" and *)
(* clears the stored token; and while the stored token is cleared every    *)
(* refresh fails, the one with T1 included.                                *)
C1_ReplayRevokesSession ==
    [][\A t \in Presentable :
         (last'.op = "refresh_token" /\ refresh_token(t)) =>
           /\ Accepted(t, users, now) =>
                /\ last'.status = 200
                /\ last'.refresh # t
                /\ users'[t.sub].refresh_token = last'.refresh
           /\ (t \in redeemed /\ t.sub \in DOMAIN users) =>
                /\ last'.status = 401
                /\ last'.detail = "Invalid refresh token"
                /\ users'[t.sub].refresh_token = NoneToken
           /\ (t.sub \in DOMAIN users /\ users[t.sub].refresh_token = NoneToken) =>
                last'.status = 401
      ]_vars

(* C2: after a successful refresh the stored refresh token is the one the  *)
(* call returned, and no token that a successful refresh has consumed is   *)
(* accepted by refresh again.                                              *)
C2_RotationInvalidatesPresented ==
    /\ (last.op = "refresh_token" /\ last.status = 200) =>
          users[last.email].refresh_token = last.refresh
    /\ \A t \in redeemed : ~Accepted(t, users, now)

(* C3: refresh accepts at most one token value per identity, and after a   *)
(* successful login it accepts none of the refresh tokens handed out for   *)
(* that identity before that login.                                        *)
C3_SingleActiveRefreshToken ==
    [][\A e \in Emails, p \in Passwords :
         (last'.op = "login" /\ last'.status = 200 /\ login(e, p)) =>
           /\ \A t \in RefreshTokensOf(e, issued) : ~Accepted(t, users', now')
           /\ Cardinality({t \in RefreshTokensOf(e, issued') :
                              Accepted(t, users', now')}) <= 1
      ]_vars

(* C4: a token issued for subject s with scope c and the default lifetime, *)
(* verified before it expires, verifies to s under the expected scope c;   *)
(* under any other expected scope the verification fails, so               *)
(* get_current_user accepts only access tokens and refresh only refresh    *)
(* tokens.                                                                 *)
DefaultTtl(scope) ==
    CASE scope = "access_token" -> ACCESS_TTL
      [] scope = "refresh_token" -> REFRESH_TTL
      [] scope = "email_verification" -> EMAIL_TTL
      [] scope = "password_reset" -> RESET_TTL

C4_ScopeRoundTrip ==
    verified # NoVerify =>
      /\ verified.expected # verified.m.scope => ~verified.res.ok
      /\ (/\ verified.expected = verified.m.scope
          /\ verified.m.ttl = None
          /\ verified.at <= verified.m.at + DefaultTtl(verified.m.scope)) =>
            (verified.res.ok /\ verified.res.email = verified.m.sub)

C4_Witness ==
    /\ verified.expected = "access_token"
    /\ verified.m.scope = "refresh_token"
    /\ verified.m.ttl = None
    /\ verified.at = verified.m.at
    /\ ~verified.res.ok

(* C5: a token of any scope issued with an explicit lifetime of -1 second  *)
(* fails every verify operation, at the instant of issue and later.        *)
C5_ExpiredAtIssue ==
    (verified # NoVerify /\ verified.m.ttl = <<-1>>) => ~verified.res.ok

C5_Witness ==
    /\ verified.m.ttl = <<-1>>
    /\ verified.expected = verified.m.scope
    /\ verified.at = verified.m.at
    /\ ~verified.res.ok

(* C6: login with the right password fails with 401 "Email not confirmed"  *)
(* and stores no refresh token while the identity's email_verified flag is *)
(* unset; confirm_email with a valid email-verification token sets the     *)
(* flag; and with the flag set the same login succeeds and returns an      *)
(* access and a refresh token that verify to the email under their scopes. *)
C6_LoginAfterConfirmation ==
    [][/\ \A e \in Emails, p \in Passwords :
            (/\ last'.op = "login"
             /\ login(e, p)
             /\ e \in DOMAIN users
             /\ verify_password(p, users[e].password)) =>
               IF users[e].email_verified
               THEN /\ last'.status = 200
                    /\ verify(last'.access, "access_token", now') = Ok(e)
                    /\ verify(last'.refresh, "refresh_token", now') = Ok(e)
               ELSE /\ last'.status = 401
                    /\ last'.detail = "Email not confirmed"
                    /\ users'[e].refresh_token = NoneToken
       /\ \A t \in Presentable :
            (/\ last'.op = "confirmed_email"
             /\ confirmed_email_route(t)
             /\ get_email_from_token(t, now).ok
             /\ t.sub \in DOMAIN users) =>
               (last'.status = 200 /\ users'[t.sub].email_verified)
      ]_vars

C6_Witness ==
    /\ last.op = "login"
    /\ last.status = 200
    /\ last.email \in DOMAIN users
    /\ users[last.email].email_verified
    /\ users[last.email].refresh_token = last.refresh

(* C7: a login with a wrong password for an existing identity, whatever    *)
(* its email_verified flag, is answered exactly as a login for an email    *)
(* that has no identity.                                                   *)
C7_LoginDoesNotEnumerate ==
    [][\A e \in Emails, p \in Passwords :
         (/\ last'.op = "login"
          /\ login(e, p)
          /\ e \in DOMAIN users
          /\ ~verify_password(p, users[e].password)) =>
            (last'.status = 401 /\ last'.detail = login_check(NoUser, p))
      ]_vars

(* C8: request_password_reset answers 200 with the same message whether or *)
(* not the email has an identity, leaves the users table and the cache as  *)
(* they are, and schedules the password-reset mail exactly when the        *)
(* identity exists.                                                        *)
C8_ResetRequestIsOpaque ==
    [][\A e \in Emails :
         (last'.op = "request_password_reset" /\ request_password_reset(e)) =>
           /\ last'.status = 200
           /\ last'.detail = GenericResetMessage
           /\ users' = users
           /\ cache' = cache
           /\ (last'.mail = "password_reset") = (e \in DOMAIN users)
           /\ (e \notin DOMAIN users) => issued' = issued
      ]_vars

C8_Witness ==
    /\ last.op = "request_password_reset"
    /\ last.status = 200
    /\ last.email \notin DOMAIN users
    /\ DOMAIN users # {}

(* C9: reset_password with a valid, unexpired password-reset token of an   *)
(* existing identity answers 200 and replaces the password hash: the new   *)
(* password passes the password check and no other password does.          *)
C9_ResetReplacesPassword ==
    [][\A t \in Presentable, p \in Passwords :
         (/\ last'.op = "reset_password"
          /\ reset_password(t, p)
          /\ get_email_from_reset_token(t, now).ok
          /\ t.sub \in DOMAIN users) =>
            /\ last'.status = 200
            /\ verify_password(p, users'[t.sub].password)
            /\ \A q \in Passwords \ {p} : ~verify_password(q, users'[t.sub].password)
      ]_vars

C12_ResolvePopulatesCache ==
    [][\A t \in Presentable :
         (last'.op = "read_users_me" /\ read_users_me(t)) =>
           /\ (last'.status = 200 /\ last'.detail = "database") =>
                /\ t.sub \in DOMAIN cache'
                /\ cache'[t.sub] = Profile(users[t.sub], now)
                /\ redis_hit(cache', t.sub, now')
           /\ (/\ last.op = "read_users_me"
               /\ last.status = 200
               /\ last.detail = "database"
               /\ last.email = t.sub
               /\ get_current_user_email(t, now).ok
               /\ redis_up) =>
                (last'.status = 200 /\ last'.detail = "cache" /\ cache' = cache)
      ]_vars

C12_Witness ==
    /\ last.op = "read_users_me"
    /\ last.status = 200
    /\ last.detail = "database"
    /\ redis_hit(cache, last.email, now)
    /\ cache[last.email] = Profile(users[last.email], now)

(* C13: resolve with a valid access token of an existing identity          *)
(* succeeds, whether or not the redis server answers.                      *)
C13_ResolveSurvivesCacheOutage ==
    (last.op = "read_users_me" /\ last.email \in DOMAIN users) => last.status = 200

(* C14: for one client, the first 5 requests of a 60 second window, which  *)
(* begins with the first request after the end of the window before, are   *)
(* admitted and every further request of the window is answered 429; the   *)
(* first request after the window has elapsed is admitted again.           *)
RECURSIVE WindowStart(_, _)
WindowStart(lg, i) ==
    LET before == {j \in 1..(i - 1) : lg[j].host = lg[i].host} IN
    IF before = {} THEN lg[i].at
    ELSE LET p == CHOOSE j \in before : \A k \in before : k <= j
             ws == WindowStart(lg, p)
         IN IF lg[i].at >= ws + 60 THEN lg[i].at ELSE ws

PlaceInWindow(lg, i) ==
    Cardinality({j \in 1..i : /\ lg[j].host = lg[i].host
                              /\ WindowStart(lg, j) = WindowStart(lg, i)})

C14_FiveThenReject ==
    \A i \in 1..Len(rlog) :
        rlog[i].outcome = IF PlaceInWindow(rlog, i) <= 5 THEN "admitted"
                          ELSE "TooManyRequests"

C14_Witness ==
    /\ Len(rlog) >= 7
    /\ \A i \in 1..7 : rlog[i].host = rlog[1].host
    /\ \A i \in 1..5 : rlog[i].outcome = "admitted"
    /\ rlog[6].outcome = "TooManyRequests"
    /\ rlog[6].at < rlog[1].at + 60
    /\ rlog[7].at >= rlog[1].at + 60
    /\ rlog[7].outcome = "admitted"

(* C19: the requests of one client whose increments fall into one lifetime *)
(* of the counter key each get their own number 1, 2, ..., N, in the order *)
(* of their increments, however their steps interleave; the counter stands *)
(* at N; and once all N have finished, min(N, 5) of them were admitted.    *)
KeyBirth(lg, i) ==
    LET births == {j \in 1..i : lg[j].host = lg[i].host /\ lg[j].fresh} IN
    IF births = {} THEN i ELSE CHOOSE j \in births : \A k \in births : k <= j

SameKey(lg, i) ==
    {k \in 1..Len(lg) : lg[k].host = lg[i].host /\ KeyBirth(lg, k) = KeyBirth(lg, i)}

C19_AtomicCount ==
    \A i \in 1..Len(rlog) :
        LET calls == SameKey(rlog, i)
            N == Cardinality(calls)
        IN
        /\ rlog[i].n = Cardinality({k \in calls : k <= i})
        /\ (\A k \in 1..Len(rlog) : rlog[k].host = rlog[i].host => k \in calls) =>
              (/\ rlog[i].host \in DOMAIN rate
               /\ rate[rlog[i].host].n = N)
        /\ (\A k \in calls : rlog[k].pc = "done") =>
              Cardinality({k \in calls : rlog[k].outcome = "admitted"})
                = IF N < 5 THEN N ELSE 5

C19_Witness ==
    /\ Len(rlog) >= 6
    /\ \A i \in 1..6 : rlog[i].host = rlog[1].host /\ rlog[i].n = i
    /\ rlog[1].pc = "expire"
    /\ rlog[2].pc = "check"
    /\ rlog[5].outcome = "admitted"
    /\ rlog[6].outcome = "TooManyRequests"

(* C15: confirm_email with a valid email-verification token of an existing *)
(* identity answers 200 and leaves the flag set: the first call changes    *)
(* the email_verified flag and nothing else, a repeated call changes       *)
(* nothing; and no operation unsets a flag that is set.                    *)
C15_ConfirmIdempotent ==
    [][/\ \A e \in DOMAIN users : users[e].email_verified => users'[e].email_verified
       /\ \A t \in Presentable :
            (/\ last'.op = "confirmed_email"
             /\ confirmed_email_route(t)
             /\ get_email_from_token(t, now).ok
             /\ t.sub \in DOMAIN users) =>
               /\ last'.status = 200
               /\ users' = [users EXCEPT ![t.sub].email_verified = TRUE]
               /\ users[t.sub].email_verified => users' = users
      ]_vars

C15_Witness ==
    /\ last.op = "confirmed_email"
    /\ last.status = 200
    /\ last.detail = "Your email is already confirmed"
    /\ last.email \in DOMAIN users
    /\ users[last.email].email_verified

(* C16: any two token failures of refresh, resolve and reset_password      *)
(* (signature, expiry, scope, unknown subject, stored token mismatch) are  *)
(* answered alike: 401 with one and the same detail.                       *)
TokenFailure(response) ==
    /\ response.op \in {"refresh_token", "read_users_me", "reset_password"}
    /\ response.status \notin {200, 500}

C16_OneTokenFailure ==
    [][(TokenFailure(last) /\ TokenFailure(last')) =>
          /\ last'.status = 401
          /\ last'.status = last.status
          /\ last'.detail = last.detail
      ]_vars

(* C17: a token issued with a lifetime override of t seconds, t = 0        *)
(* included, expires at the time of issue + t; a token issued without an   *)
(* override expires after the default lifetime of its scope.               *)
C17_OverrideReplacesDefault ==
    minted # NoMint =>
      minted.token.exp = minted.at + (IF minted.ttl = None THEN DefaultTtl(minted.scope)
                                      ELSE minted.ttl[1])

(* C18: a refresh request that read a row whose stored token is the token  *)
(* it presents succeeds and overwrites the stored token with the one it    *)
(* minted, whatever other requests wrote after its read: of two requests   *)
(* that both read the match before either wrote, both succeed, and the     *)
(* stored token is that of the one that wrote last.                        *)
C18_LastWriterWins ==
    [][\A i \in DOMAIN flights :
         (/\ flights[i].pc = "write"
          /\ refresh_token_write(i)
          /\ Found(flights[i].user)
          /\ flights[i].user.refresh_token = flights[i].token) =>
            /\ flights'[i].status = 200
            /\ flights'[i].write_no = Writes(flights) + 1
            /\ users'[flights[i].user.email].refresh_token = flights'[i].refresh
      ]_vars

C18_Witness ==
    /\ DOMAIN flights = {1, 2}
    /\ flights[1].token = flights[2].token
    /\ flights[1].status = 200 /\ flights[2].status = 200
    /\ flights[1].read_no = 0 /\ flights[2].read_no = 0
    /\ flights[1].write_no = 1 /\ flights[2].write_no = 2
    /\ flights[1].refresh # flights[2].refresh
    /\ flights[1].access # flights[2].access
    /\ users[flights[2].token.sub].refresh_token = flights[2].refresh

(* C20: a refresh with a correctly signed, unexpired refresh-scoped token   *)
(* of an existing identity that is not the identity's stored refresh token *)
(* (none included) is answered 401 "Invalid refresh token", returns and    *)
(* mints no token, and leaves the stored refresh token none and the rest   *)
(* of the users table as it was.                                           *)
C20_MismatchClears ==
    [][\A t \in Presentable :
         (/\ last'.op = "refresh_token"
          /\ refresh_token(t)
          /\ decode_refresh_token(t, now).ok
          /\ t.sub \in DOMAIN users
          /\ users[t.sub].refresh_token # t) =>
            /\ last'.status = 401
            /\ last'.detail = "Invalid refresh token"
            /\ last'.access = NoneToken /\ last'.refresh = NoneToken
            /\ issued' = issued
            /\ users' = [users EXCEPT ![t.sub].refresh_token = NoneToken]
      ]_vars

C20_Witness ==
    /\ last.op = "refresh_token"
    /\ last.status = 401
    /\ last.detail = "Invalid refresh token"
    /\ last.email \in DOMAIN users
    /\ users[last.email].refresh_token = NoneToken
    /\ \E t \in redeemed : t.sub = last.email

(* C21: the expiry of a counter key is set once, 60 seconds ahead, by the  *)
(* request whose increment created the key (counter 1); no step of any     *)
(* request, admitted or rejected, changes the expiry of a key that has     *)
(* one.                                                                    *)
C21_FixedWindow ==
    [][\A h \in Hosts :
         /\ (/\ redis_live(rate, h, now)
             /\ rate[h].expire_at # NoExpiry) =>
               (h \in DOMAIN rate' /\ rate'[h].expire_at = rate[h].expire_at)
         /\ (/\ h \in DOMAIN rate /\ h \in DOMAIN rate'
             /\ rate'[h].expire_at # rate[h].expire_at
             /\ rate'[h].expire_at # NoExpiry) =>
               /\ rate[h].expire_at = NoExpiry
               /\ rate'[h].expire_at = now + 60
               /\ \E i \in 1..Len(rlog) :
                    /\ rlog[i].host = h /\ rlog[i].n = 1 /\ rlog[i].fresh
                    /\ rlog[i].pc = "expire" /\ rlog'[i].pc = "check"
      ]_vars

C21_Witness ==
    /\ Len(rlog) >= 6
    /\ \A i \in 1..6 : rlog[i].host = rlog[1].host /\ rlog[i].n = i /\ rlog[i].pc = "done"
    /\ rlog[1].at = 0
    /\ rlog[2].at = 59 /\ rlog[2].outcome = "admitted"
    /\ rlog[6].at = 59 /\ rlog[6].outcome = "TooManyRequests"
    /\ rate[rlog[1].host].expire_at = 60
    /\ now = 59

(* C22: while an identity's stored refresh token is none, every refresh    *)
(* presenting a token of that identity fails and leaves it none, and       *)
(* after any request other than a successful login of that identity no     *)
(* token a client holds is accepted by refresh; after a successful login   *)
(* the refresh token it returned is accepted.                              *)
C22_OnlyLoginRestores ==
    [][\A e \in DOMAIN users :
         (users[e].refresh_token = NoneToken /\ last' # last) =>
           /\ \A t \in Presentable :
                (last'.op = "refresh_token" /\ t.sub = e /\ refresh_token(t)) =>
                   (last'.status = 401 /\ users'[e].refresh_token = NoneToken)
           /\ IF last'.op = "login" /\ last'.status = 200 /\ last'.email = e
              THEN Accepted(last'.refresh, users', now')
              ELSE \A t \in RefreshTokensOf(e, Presentable') : ~Accepted(t, users', now')
      ]_vars

ProfileMutations == {"update_avatar_user", "reset_password", "confirmed_email", "refresh_token"}

BothWrite(i, j) ==
    /\ i # j
    /\ j \in DOMAIN lookups
    /\ lookups[j].pc = "done"
    /\ lookups[j].status = 200
    /\ lookups[j].email = lookups[i].email

LastRead(i, j) == IF lookups[i].read_no > lookups[j].read_no THEN lookups[i] ELSE lookups[j]

(* C25 as stated: when two resolves of one identity both miss and both     *)
(* write, the entry left behind is the projection of the record as read by *)
(* the later of the two reads of the users table.                          *)
C25_LatestReadIsCached ==
    [][\A i, j \in 1..MaxLookups :
         (get_current_user_set(i) /\ BothWrite(i, j)) =>
            Returned(cache'[lookups[i].email]) = Returned(LastRead(i, j).user)
      ]_vars

(* C26: after a successful login the cache holds under the identity's      *)
(* email its id, username, email and avatar as the users table has them,   *)
(* expiring 3600 seconds later, and a resolve with the access token just   *)
(* returned is answered from the cache with these fields.                  *)
C26_LoginPopulatesCache ==
    [][\A e \in CacheEmails, p \in SignupPasswords :
         (last'.op = "login" /\ login(e, p) /\ last'.status = 200) =>
            /\ e \in DOMAIN cache'
            /\ cache'[e] = [id |-> users'[e].id, username |-> users'[e].username,
                            email |-> e, avatar |-> users'[e].avatar,
                            expire_at |-> now + 3600]
            /\ LET g == get_current_user(last'.access, now', users', cache', redis_up') IN
                 /\ g.status = 200
                 /\ g.detail = "cache"
                 /\ g.user = Returned(users'[e])
      ]_vars

(* a login succeeded for an identity whose avatar had been changed while   *)
(* an earlier profile was cached                                           *)
C26_Witness ==
    /\ last.op = "login"
    /\ last.status = 200
    /\ users[last.email].avatar = build_url(last.email, 1)
    /\ cache[last.email].avatar = build_url(last.email, 1)
    /\ cache[last.email].expire_at = now + 3600
    /\ now > 0

(* The signups that created the identity of an email *)
CreatedBy(e, sg) == {k \in DOMAIN sg : sg[k].email = e /\ sg[k].status = 201}

(* C27: a signup for an email that has an identity is answered 409 and     *)
(* leaves the users table as it is; an INSERT for an email that got its    *)
(* identity meanwhile writes nothing; a created identity has no refresh    *)
(* token and email_verified unset; after every step each email has at most *)
(* one identity, created by exactly one signup, and ids are distinct.      *)
C27_SignupUnique ==
    [][/\ \A u \in Usernames, e \in Emails, p \in Passwords :
            (signup_read(u, e, p) /\ e \in DOMAIN users) =>
               /\ signups'[Cardinality(DOMAIN signups) + 1].status = 409
               /\ users' = users
       /\ \A i \in 1..MaxSignups :
            signup_insert(i) =>
               IF signups[i].email \in DOMAIN users
               THEN users' = users /\ signups'[i].status # 201
               ELSE /\ signups'[i].status = 201
                    /\ users'[signups[i].email].refresh_token = NoneToken
                    /\ users'[signups[i].email].email_verified = FALSE
                    /\ users'[signups[i].email].password = signups[i].password
                    /\ \A e \in DOMAIN users : users'[e] = users[e]
       /\ \A e \in Emails :
            /\ Cardinality(CreatedBy(e, signups')) <= 1
            /\ e \in DOMAIN users' <=> CreatedBy(e, signups') # {}
            /\ \A k \in CreatedBy(e, signups') :
                  /\ users'[e].id = signups'[k].user.id
                  /\ users'[e].password = signups'[k].password
       /\ \A e1, e2 \in DOMAIN users' : e1 # e2 => users'[e1].id # users'[e2].id
      ]_vars

(* two signups for one email both read the users table before either      *)
(* inserted; one created the identity, the other was refused               *)
C27_Witness ==
    \E i, j \in DOMAIN signups :
        /\ i # j
        /\ signups[i].email = signups[j].email
        /\ signups[i].password # signups[j].password
        /\ signups[i].status = 201
        /\ signups[j].status = 500
        /\ users[signups[i].email].password = signups[i].password

(* C28: a login for an unknown email, an unconfirmed email or with a wrong *)
(* password is answered 401 and leaves the users table (the stored refresh *)
(* token with it) and the cache as they were, and hands out no token.      *)
C28_FailedLoginChangesNothing ==
    [][\A e \in Emails, p \in Passwords :
         (/\ last'.op = "login"
          /\ login(e, p)
          /\ \/ e \notin DOMAIN users
             \/ ~users[e].email_verified
             \/ ~verify_password(p, users[e].password)) =>
            /\ last'.status = 401
            /\ last'.access = NoneToken /\ last'.refresh = NoneToken
            /\ users' = users
            /\ cache' = cache
            /\ issued' = issued
      ]_vars

(* a login with a wrong password was refused for an identity that has a    *)
(* stored refresh token and a cache entry                                  *)
C28_Witness ==
    /\ last.op = "login"
    /\ last.status = 401
    /\ last.email \in DOMAIN users
    /\ users[last.email].email_verified
    /\ users[last.email].refresh_token # NoneToken
    /\ last.email \in DOMAIN cache

C30_TokenImpliesVerified ==
    \A e \in DOMAIN users :
        users[e].refresh_token # NoneToken => users[e].email_verified = TRUE

(* one identity holds a refresh token while a login of another, not yet    *)
(* confirmed, has just been refused                                        *)
C30_Witness ==
    /\ \E e \in DOMAIN users : users[e].refresh_token # NoneToken
    /\ last.op = "login"
    /\ last.status = 401
    /\ last.email \in DOMAIN users
    /\ ~users[last.email].email_verified
    /\ users[last.email].refresh_token = NoneToken

(* C31: whenever no rate_limit call is in progress, every rate-limit       *)
(* counter that exists has a TTL, also after a call was cut short between  *)
(* its incr and its expire.                                                *)
C31_CounterHasTtl ==
    (\A i \in 1..Len(rlog) : rlog[i].pc = "done") =>
        \A h \in DOMAIN rate :
            redis_live(rate, h, now) => rate[h].expire_at # NoExpiry

(* Two refresh requests that presented the same token and both succeeded,  *)
(* i writing before j.                                                     *)
BothRefreshed(i, j) ==
    /\ i \in DOMAIN flights /\ j \in DOMAIN flights
    /\ flights[i].token = flights[j].token
    /\ flights[i].pc = "done" /\ flights[j].pc = "done"
    /\ flights[i].status = 200 /\ flights[j].status = 200
    /\ flights[i].write_no > 0
    /\ flights[i].write_no < flights[j].write_no

(* C32: after two concurrent refresh requests with the same token both     *)
(* succeeded, a later refresh with the token returned to the one that      *)
(* wrote first is answered 401 and clears the stored token, after which    *)
(* the token returned to the one that wrote last is not accepted either.   *)
C32_FirstWriterTokenDead ==
    [][\A i, j \in 1..MaxFlights :
         (/\ last'.op = "refresh_token"
          /\ BothRefreshed(i, j)
          /\ refresh_token(flights[i].refresh)) =>
            /\ last'.status = 401
            /\ users'[flights[i].token.sub].refresh_token = NoneToken
            /\ ~Accepted(flights[j].refresh, users', now')
      ]_vars

(* C33: a password-reset token is not used up: a reset_password call that  *)
(* presented an unexpired reset token of an existing identity has answered *)
(* 200 and set the password, and the token is still one that              *)
(* reset_password takes, so that it can be presented again.                *)
C33_ResetTokenReusable ==
    (/\ last.op = "reset_password"
     /\ last.email \in DOMAIN users
     /\ \E t \in Presentable :
           get_email_from_reset_token(t, now).ok /\ t.sub = last.email) =>
        /\ last.status = 200
        /\ \E p \in Passwords : verify_password(p, users[last.email].password)

ContactOps ==
    {"create_contact", "get_contacts", "get_contact_by_id", "update_contact",
     "delete_contact", "search_contacts"}

RowAt(db, id) == IF id \in DOMAIN db.rows THEN {db.rows[id]} ELSE {}

(* C34: a contacts request is resolved to the user its access token names *)
(* or to nobody; every row it returns, creates, changes or deletes is      *)
(* owned by that user, a created row included; update and delete of a row  *)
(* owned by another user answer 404 and leave the table as it was.         *)
C34_ContactsIsolated ==
    [][last'.op \in ContactOps =>
         /\ last'.user.id # 0 =>
               /\ last'.email \in DOMAIN users
               /\ last'.user.id = users[last'.email].id
         /\ \A c \in last'.rows : c.user_id = last'.user.id
         /\ \A id \in DOMAIN contacts.rows \cup DOMAIN contacts'.rows :
               RowAt(contacts, id) # RowAt(contacts', id) =>
                  /\ last'.user.id # 0
                  /\ \A c \in RowAt(contacts, id) \cup RowAt(contacts', id) :
                        c.user_id = last'.user.id
         /\ last'.op = "create_contact" /\ last'.status = 201 =>
               \E c \in last'.rows :
                  /\ c.user_id = users[last'.email].id
                  /\ RowAt(contacts', c.id) = {c}
                  /\ RowAt(contacts, c.id) = {}
         /\ \A id \in DOMAIN contacts.rows :
               (/\ last'.op \in {"update_contact", "delete_contact"}
                /\ last'.user.id # 0
                /\ contacts.rows[id].user_id # last'.user.id
                /\ \E t \in Bearers :
                      /\ t.sub = last'.email
                      /\ \/ \E b \in Updates : update_contact_route(t, id, b)
                         \/ delete_contact_route(t, id)) =>
                  (last'.status = 404 /\ contacts' = contacts)
      ]_vars

(* a user asked to delete a contact while every contact there is belongs   *)
(* to the other user, and was answered 404                                 *)
C34_Witness ==
    /\ last.op = "delete_contact"
    /\ last.status = 404
    /\ last.user.id # 0
    /\ \A id \in ContactIds :
          id \in DOMAIN contacts.rows /\ contacts.rows[id].user_id # last.user.id

(* C35: while the redis server does not answer, a POST /contacts/ request  *)
(* is answered 500, its rate_limit call does not admit it, and no contact  *)
(* is created.                                                             *)
C35_RateLimitFailsClosed ==
    [][\A t \in Bearers, b \in Bodies :
         (~redis_up /\ create_contact_route("10.0.0.1", t, b)) =>
            /\ last'.status = 500
            /\ rlog'[Len(rlog')].outcome = "500"
            /\ rate' = rate
            /\ contacts' = contacts
      ]_vars

(* a user who had created a contact was refused while redis was away *)
C35_Witness ==
    /\ ~redis_up
    /\ last.op = "create_contact"
    /\ last.status = 500
    /\ last.email \in DOMAIN users
    /\ contacts.seq = 1
    /\ Len(rlog) >= 2
    /\ rlog[Len(rlog)].outcome = "500"
    /\ rlog[1].outcome = "admitted"

====
